---- MODULE Spec2Model ----
(***************************************************************************)
(* A model of the terminal text editor of src/src/main.cpp: the global     *)
(* editor state g_E, the key decoder readKey, the key handler processKey   *)
(* with the editing operations it calls, and the main loop                 *)
(*     c = readKey(); refreshScreen(c); processKey(c);                     *)
(* Bytes are integers 0..255, a line is a sequence of bytes, and cursor    *)
(* positions are 0-based as in the code (sequences here are 1-based, so    *)
(* lines[y] of the code is at(lines, y)).                                  *)
(***************************************************************************)
EXTENDS Integers, Sequences, FiniteSets, TLC

VARIABLES
    g_E,     \* the editor state, struct EditorConfig
    proc,    \* the process: "running", "exited", "crashed", "undefined"
    disk,    \* the bytes of the file named g_E.filename
    keys,    \* the keys processed so far (logged by ScriptSpec only)
    reads,   \* what each read() of readKey returned so far, in order
    seq,     \* readKey's position: <<>> before its first read, else the
             \* bytes of the escape sequence it has read, ESC first
    events,  \* the calls of readKey that returned: the key, and the
             \* number n of read() calls it made
    tty      \* the terminal: its attributes, the attributes saved in
             \* orig_termios, the handlers registered with atexit, and the
             \* number of times raw mode was set

vars == <<g_E, proc, disk, keys, reads, seq, events, tty>>

(***************************************************************************)
(* Program constants                                                       *)
(***************************************************************************)
TAB_SIZE == 8
BACKSPACE == 127
ARROW_LEFT == 1000
ARROW_RIGHT == 1001
ARROW_UP == 1002
ARROW_DOWN == 1003
DEL_KEY == 1004
HOME_KEY == 1005
END_KEY == 1006
PAGE_UP == 1007
PAGE_DOWN == 1008

NUL == 0
TAB == 9
NL == 10
CR == 13
ESC == 27
SPACE == 32
StatusRows == 2

\* ctrlWith(c) is c & 0x1f
ctrlWith(ch) == ch % 32
CTRL_H == ctrlWith(104)
CTRL_L == ctrlWith(108)
CTRL_Q == ctrlWith(113)
CTRL_S == ctrlWith(115)

(***************************************************************************)
(* Bounds of the model                                                     *)
(***************************************************************************)
\* Enter is pressed on a line only while the buffer has fewer lines
MaxLines == 2
\* a byte is typed only while the buffer holds fewer bytes
MaxBytes == 2
\* Enter is pressed only while the render lines hold at most MaxRender bytes
\* and at most MaxDrift of them differ from the rendering of their line
MaxRender == 8
MaxDrift == 0

\* The printable bytes the model types into the buffer: 'a' and 'b'.
Chars == {97, 98}

\* Terminal sizes (rows, columns) the window-size query may report.
TermRows == {3, 4}
TermCols == {4}

\* The files the editor is started on: none, or a file "f" holding one line,
\* a tab followed by 'a'.
NoFile == [name |-> "", content |-> <<>>]
InitFiles ==
    { NoFile,
      [name |-> "f", content |-> <<TAB, 97, NL>>] }

(***************************************************************************)
(* std::string and std::vector helpers                                     *)
(***************************************************************************)
Min(a, b) == IF a < b THEN a ELSE b

\* v[i] with the code's 0-based index
at(v, i) == v[i + 1]

\* v with v[i] = e
put(v, i, e) == [v EXCEPT ![i + 1] = e]

\* std::string::substr(pos, n), for pos <= size()
substr(s, pos, n) == SubSeq(s, pos + 1, Min(pos + n, Len(s)))

\* vector::insert(begin() + i, e), for i <= size()
insertAt(v, i, e) == SubSeq(v, 1, i) \o <<e>> \o SubSeq(v, i + 1, Len(v))

\* vector::erase(begin() + i), for i < size()
eraseAt(v, i) == SubSeq(v, 1, i) \o SubSeq(v, i + 2, Len(v))

Spaces(n) == [i \in 1..n |-> SPACE]

RECURSIVE TotalBytes(_)
TotalBytes(ls) ==
    IF ls = <<>> THEN 0 ELSE Len(Head(ls)) + TotalBytes(Tail(ls))

(***************************************************************************)
(* convertToRenderingRow: every tab becomes TAB_SIZE spaces, every other   *)
(* byte is copied.                                                         *)
(***************************************************************************)
RECURSIVE convertToRenderingRow(_)
convertToRenderingRow(line) ==
    IF line = <<>> THEN <<>>
    ELSE (IF Head(line) = TAB THEN Spaces(TAB_SIZE) ELSE <<Head(line)>>)
         \o convertToRenderingRow(Tail(line))

(***************************************************************************)
(* editorOpen: std::getline until it fails. A line ends at a newline (not  *)
(* stored); a last line without a newline is kept when it is not empty.    *)
(***************************************************************************)
RECURSIVE getlines(_)
getlines(content) ==
    IF content = <<>> THEN <<>>
    ELSE LET nls == {i \in 1..Len(content) : content[i] = NL}
         IN IF nls = {} THEN <<content>>
            ELSE LET k == CHOOSE i \in nls : \A j \in nls : i <= j
                 IN <<SubSeq(content, 1, k - 1)>>
                    \o getlines(SubSeq(content, k + 1, Len(content)))

editorOpen(E, filename, content) ==
    LET ls == getlines(content)
    IN [E EXCEPT !.filename = filename,
                 !.lines = ls,
                 !.renders = [i \in 1..Len(ls) |-> convertToRenderingRow(ls[i])]]

\* initEditor, for a terminal of rows x cols
initEditor(rows, cols) ==
    [cursorX |-> 0, cursorY |-> 0, cursorRX |-> 0,
     rowOffset |-> 0, colOffset |-> 0,
     screenRows |-> rows - StatusRows, screenCols |-> cols,
     lines |-> <<>>, renders |-> <<>>,
     filename |-> "", modified |-> FALSE]

(***************************************************************************)
(* editorScroll                                                            *)
(***************************************************************************)
RECURSIVE renderX(_, _, _, _)
\* the loop of editorScroll: rx after bytes [i, x) of line, starting at rx
renderX(line, i, x, rx) ==
    IF i >= x THEN rx
    ELSE renderX(line, i + 1, x,
                 IF at(line, i) = TAB
                 THEN rx + ((TAB_SIZE - 1) - (rx % TAB_SIZE)) + 1
                 ELSE rx + 1)

\* editorScroll that scrolls right to rx - screenCols, one column short
editorScrollShort(E) ==
    LET rx == IF E.cursorY < Len(E.lines)
              THEN renderX(at(E.lines, E.cursorY), 0, E.cursorX, 0)
              ELSE E.cursorRX
        col1 == IF rx < E.colOffset THEN rx ELSE E.colOffset
        col2 == IF rx >= col1 + E.screenCols THEN rx - E.screenCols ELSE col1
        row1 == IF E.cursorY < E.rowOffset THEN E.cursorY ELSE E.rowOffset
        row2 == IF E.cursorY >= row1 + E.screenRows
                THEN E.cursorY - E.screenRows + 1 ELSE row1
    IN [E EXCEPT !.cursorRX = rx, !.colOffset = col2, !.rowOffset = row2]

\* editorScroll that scrolls down one row per call
editorScrollStepwise(E) ==
    LET rx == IF E.cursorY < Len(E.lines)
              THEN renderX(at(E.lines, E.cursorY), 0, E.cursorX, 0)
              ELSE E.cursorRX
        col1 == IF rx < E.colOffset THEN rx ELSE E.colOffset
        col2 == IF rx >= col1 + E.screenCols THEN rx - E.screenCols + 1 ELSE col1
        row1 == IF E.cursorY < E.rowOffset THEN E.cursorY ELSE E.rowOffset
        row2 == IF E.cursorY >= row1 + E.screenRows THEN row1 + 1 ELSE row1
    IN [E EXCEPT !.cursorRX = rx, !.colOffset = col2, !.rowOffset = row2]

editorScroll(E) ==
    LET rx == IF E.cursorY < Len(E.lines)
              THEN renderX(at(E.lines, E.cursorY), 0, E.cursorX, 0)
              ELSE E.cursorRX
        col1 == IF rx < E.colOffset THEN rx ELSE E.colOffset
        col2 == IF rx >= col1 + E.screenCols THEN rx - E.screenCols + 1 ELSE col1
        row1 == IF E.cursorY < E.rowOffset THEN E.cursorY ELSE E.rowOffset
        row2 == IF E.cursorY >= row1 + E.screenRows
                THEN E.cursorY - E.screenRows + 1 ELSE row1
    IN [E EXCEPT !.cursorRX = rx, !.colOffset = col2, !.rowOffset = row2]

(***************************************************************************)
(* moveCursor                                                              *)
(***************************************************************************)
currentLine(E) ==
    IF E.cursorY >= Len(E.lines) THEN <<>> ELSE at(E.lines, E.cursorY)

\* the switch of moveCursor where ARROW_RIGHT stops at the end of the last
\* line instead of stepping below it
moveCursorStepStays(E, key) ==
    IF key = ARROW_LEFT THEN
        IF E.cursorX > 0 THEN [E EXCEPT !.cursorX = E.cursorX - 1]
        ELSE IF E.cursorY > 0
             THEN [E EXCEPT !.cursorY = E.cursorY - 1,
                            !.cursorX = Len(at(E.lines, E.cursorY - 1))]
             ELSE E
    ELSE IF key = ARROW_RIGHT THEN
        IF Len(currentLine(E)) > 0 /\ E.cursorX < Len(currentLine(E))
        THEN [E EXCEPT !.cursorX = E.cursorX + 1]
        ELSE IF E.cursorY + 1 < Len(E.lines) /\ E.cursorX = Len(currentLine(E))
             THEN [E EXCEPT !.cursorY = E.cursorY + 1, !.cursorX = 0]
             ELSE E
    ELSE IF key = ARROW_UP THEN
        IF E.cursorY > 0 THEN [E EXCEPT !.cursorY = E.cursorY - 1] ELSE E
    ELSE IF key = ARROW_DOWN THEN
        IF E.cursorY < Len(E.lines) THEN [E EXCEPT !.cursorY = E.cursorY + 1] ELSE E
    ELSE E

\* the switch of moveCursor, before the snap back
moveCursorStep(E, key) ==
    IF key = ARROW_LEFT THEN
        IF E.cursorX > 0 THEN [E EXCEPT !.cursorX = E.cursorX - 1]
        ELSE IF E.cursorY > 0
             THEN [E EXCEPT !.cursorY = E.cursorY - 1,
                            !.cursorX = Len(at(E.lines, E.cursorY - 1))]
             ELSE E
    ELSE IF key = ARROW_RIGHT THEN
        IF Len(currentLine(E)) > 0 /\ E.cursorX < Len(currentLine(E))
        THEN [E EXCEPT !.cursorX = E.cursorX + 1]
        ELSE IF E.cursorY < Len(E.lines) /\ E.cursorX = Len(currentLine(E))
             THEN [E EXCEPT !.cursorY = E.cursorY + 1, !.cursorX = 0]
             ELSE E
    ELSE IF key = ARROW_UP THEN
        IF E.cursorY > 0 THEN [E EXCEPT !.cursorY = E.cursorY - 1] ELSE E
    ELSE IF key = ARROW_DOWN THEN
        IF E.cursorY < Len(E.lines) THEN [E EXCEPT !.cursorY = E.cursorY + 1] ELSE E
    ELSE E

moveCursor(E, key) ==
    LET E1 == moveCursorStep(E, key)
        rowLen == Len(currentLine(E1))
    IN IF E1.cursorX > rowLen THEN [E1 EXCEPT !.cursorX = rowLen] ELSE E1

RECURSIVE moveCursorTimes(_, _, _)
\* while (times--) moveCursor(key)
moveCursorTimes(E, key, times) ==
    IF times = 0 THEN E ELSE moveCursorTimes(moveCursor(E, key), key, times - 1)

(***************************************************************************)
(* save: the lines, each followed by a newline, written to the file; no    *)
(* write when no filename is known.                                        *)
(***************************************************************************)
RECURSIVE toText(_)
toText(ls) ==
    IF ls = <<>> THEN <<>> ELSE Head(ls) \o <<NL>> \o toText(Tail(ls))

\* save with the file opened for appending
saveAppends(E, file) ==
    IF Len(E.filename) = 0 THEN file ELSE file \o toText(E.lines)

save(E, file) ==
    IF Len(E.filename) = 0 THEN file ELSE toText(E.lines)

(***************************************************************************)
(* deleteChar                                                              *)
(***************************************************************************)
\* deleteChar that reads the length of the line above after the merge
deleteCharLateCursor(E) ==
    IF E.cursorY = Len(E.lines) THEN E
    ELSE IF E.cursorY = 0 /\ E.cursorX = 0 THEN E
    ELSE IF E.cursorX > 0 THEN
        LET xpos == E.cursorX
            org == at(E.lines, E.cursorY)
            new == substr(org, 0, xpos - 1) \o substr(org, xpos, Len(org) - xpos)
        IN [E EXCEPT !.lines = put(E.lines, E.cursorY, new),
                     !.renders = put(E.renders, E.cursorY, convertToRenderingRow(new)),
                     !.cursorX = E.cursorX - 1,
                     !.modified = TRUE]
    ELSE
        LET y == E.cursorY
            ls == put(E.lines, y - 1, at(E.lines, y - 1) \o at(E.lines, y))
            rs == put(E.renders, y - 1, at(E.renders, y - 1) \o at(E.renders, y))
        IN [E EXCEPT !.cursorX = Len(at(ls, y - 1)),
                     !.lines = eraseAt(ls, y),
                     !.renders = eraseAt(rs, y),
                     !.cursorY = y - 1,
                     !.modified = TRUE]

deleteChar(E) ==
    IF E.cursorY = Len(E.lines) THEN E
    ELSE IF E.cursorY = 0 /\ E.cursorX = 0 THEN E
    ELSE IF E.cursorX > 0 THEN
        LET xpos == E.cursorX
            org == at(E.lines, E.cursorY)
            new == substr(org, 0, xpos - 1) \o substr(org, xpos, Len(org) - xpos)
        IN [E EXCEPT !.lines = put(E.lines, E.cursorY, new),
                     !.renders = put(E.renders, E.cursorY, convertToRenderingRow(new)),
                     !.cursorX = E.cursorX - 1,
                     !.modified = TRUE]
    ELSE
        LET y == E.cursorY
            ls == put(E.lines, y - 1, at(E.lines, y - 1) \o at(E.lines, y))
            rs == put(E.renders, y - 1, at(E.renders, y - 1) \o at(E.renders, y))
        IN [E EXCEPT !.cursorX = Len(at(E.lines, y - 1)),
                     !.lines = eraseAt(ls, y),
                     !.renders = eraseAt(rs, y),
                     !.cursorY = y - 1,
                     !.modified = TRUE]

(***************************************************************************)
(* insertLine. lines.insert(lines.begin() + ypos + 1, "") is defined only  *)
(* for ypos + 1 <= lines.size(); past that the behaviour is undefined, and *)
(* the build either kills the process ("crashed") or runs on with the      *)
(* vectors as they were and the assignments to the cursor done             *)
(* ("undefined"); nothing after that point is modelled.                    *)
(* substr(xpos, ...) throws std::out_of_range, which nothing catches, when *)
(* xpos is past the end of the string.                                     *)
(***************************************************************************)
UBOutcomes == {"crashed", "undefined"}

insertLineOutOfRange(E) == E.cursorY + 1 > Len(E.lines)

insertLineThrows(E) ==
    /\ ~insertLineOutOfRange(E)
    /\ \/ E.cursorX > Len(at(E.renders, E.cursorY))
       \/ E.cursorX > Len(at(E.lines, E.cursorY))

\* insertLine without the truncation of the line that is split
insertLineKeepsLine(E, o) ==
    IF E.cursorY + 1 > Len(E.lines) THEN
        IF o = "crashed" THEN E
        ELSE [E EXCEPT !.cursorY = E.cursorY + 1, !.cursorX = 0]
    ELSE
        LET ypos == E.cursorY
            xpos == E.cursorX
            l0 == insertAt(E.lines, ypos + 1, <<>>)
            r0 == insertAt(E.renders, ypos + 1, <<>>)
            r1 == put(r0, ypos + 1,
                      substr(at(r0, ypos), xpos, Len(at(r0, ypos)) - xpos))
            l1 == put(l0, ypos + 1,
                      substr(at(l0, ypos), xpos, Len(at(l0, ypos)) - xpos))
        IN [E EXCEPT !.lines = l1, !.renders = r1,
                     !.cursorY = E.cursorY + 1, !.cursorX = 0]

insertLine(E, o) ==
    IF insertLineOutOfRange(E) THEN
        IF o = "crashed" THEN E
        ELSE [E EXCEPT !.cursorY = E.cursorY + 1, !.cursorX = 0]
    ELSE IF insertLineThrows(E) THEN E
    ELSE
        LET ypos == E.cursorY
            xpos == E.cursorX
            l0 == insertAt(E.lines, ypos + 1, <<>>)
            r0 == insertAt(E.renders, ypos + 1, <<>>)
            r1 == put(r0, ypos + 1,
                      substr(at(r0, ypos), xpos, Len(at(r0, ypos)) - xpos))
            r2 == put(r1, ypos, substr(at(r1, ypos), 0, xpos))
            l1 == put(l0, ypos + 1,
                      substr(at(l0, ypos), xpos, Len(at(l0, ypos)) - xpos))
            l2 == put(l1, ypos, substr(at(l1, ypos), 0, xpos))
        IN [E EXCEPT !.lines = l2, !.renders = r2,
                     !.cursorY = E.cursorY + 1, !.cursorX = 0]

(***************************************************************************)
(* processKey                                                              *)
(***************************************************************************)
\* insertChar with the byte appended to the line instead of inserted at the
\* cursor (push_back for insert)
insertCharAtEnd(E, ch) ==
    LET ls == IF E.cursorY = Len(E.lines) THEN Append(E.lines, <<>>) ELSE E.lines
        rs == IF E.cursorY = Len(E.lines)
              THEN Append(E.renders, convertToRenderingRow(<<>>)) ELSE E.renders
        y == E.cursorY
        new == Append(at(ls, y), ch)
    IN [E EXCEPT !.lines = put(ls, y, new),
                 !.renders = put(rs, y, convertToRenderingRow(new)),
                 !.cursorX = E.cursorX + 1]

\* the default case: insert the byte ch at the cursor
insertChar(E, ch) ==
    LET ls == IF E.cursorY = Len(E.lines) THEN Append(E.lines, <<>>) ELSE E.lines
        rs == IF E.cursorY = Len(E.lines)
              THEN Append(E.renders, convertToRenderingRow(<<>>)) ELSE E.renders
        y == E.cursorY
        new == insertAt(at(ls, y), E.cursorX, ch)
    IN [E EXCEPT !.lines = put(ls, y, new),
                 !.renders = put(rs, y, convertToRenderingRow(new)),
                 !.cursorX = E.cursorX + 1]

\* the PAGE_UP / PAGE_DOWN case
pageKey(E, key) ==
    LET bottom == E.rowOffset + E.screenRows - 1
        y == IF key = PAGE_UP THEN E.rowOffset
             ELSE IF bottom > Len(E.lines) THEN Len(E.lines) ELSE bottom
    IN moveCursorTimes([E EXCEPT !.cursorY = y],
                       IF key = PAGE_UP THEN ARROW_UP ELSE ARROW_DOWN,
                       E.screenRows)

\* the editor state after processKey(key)
processKey(E, key, o) ==
    IF key = 0 THEN E
    ELSE IF key = CR THEN insertLine(E, o)
    ELSE IF key = CTRL_Q THEN E
    ELSE IF key = CTRL_S THEN E
    ELSE IF key = HOME_KEY THEN [E EXCEPT !.cursorX = 0]
    ELSE IF key = END_KEY THEN
        IF E.cursorY < Len(E.lines)
        THEN [E EXCEPT !.cursorX = Len(at(E.lines, E.cursorY))] ELSE E
    ELSE IF key \in {BACKSPACE, CTRL_H, DEL_KEY} THEN
        deleteChar(IF key = DEL_KEY THEN moveCursor(E, ARROW_RIGHT) ELSE E)
    ELSE IF key \in {PAGE_UP, PAGE_DOWN} THEN pageKey(E, key)
    ELSE IF key \in {ARROW_DOWN, ARROW_UP, ARROW_LEFT, ARROW_RIGHT}
         THEN moveCursor(E, key)
    ELSE IF key \in {CTRL_L, ESC} THEN E
    ELSE insertChar(E, key)

\* the process after processKey(key): exit(0) on Ctrl-Q, the end of the
\* defined behaviour in insertLine
processAfter(E, key, o) ==
    IF key = CTRL_Q THEN "exited"
    ELSE IF key = CR /\ insertLineOutOfRange(E) THEN o
    ELSE IF key = CR /\ insertLineThrows(E) THEN "crashed"
    ELSE "running"

\* the file after processKey(key)
fileAfter(E, key, file) == IF key = CTRL_S THEN save(E, file) ELSE file

(***************************************************************************)
(* refreshScreen: editorScroll, then one frame written to the terminal.    *)
(* Of the frame the model keeps the text of the body rows (drawRows, top   *)
(* row first, without the escape sequences that end each row) and the      *)
(* cursor position of the final ESC [ row ; col H. The status bar and the  *)
(* message bar are left out.                                               *)
(***************************************************************************)
\* "cp editor -- version 0.0.1"
Welcome ==
    <<99, 112, 32, 101, 100, 105, 116, 111, 114, 32, 45, 45, 32, 118, 101,
      114, 115, 105, 111, 110, 32, 48, 46, 48, 46, 49>>

TILDE == 126

\* the text of screen row y (0-based) as drawRows appends it
drawRow(E, y) ==
    LET filerow == y + E.rowOffset
    IN IF filerow >= Len(E.lines) THEN
           IF Len(E.lines) = 0 /\ y = E.screenRows \div 3 THEN
               LET wellen == Min(Len(Welcome), E.screenCols)
                   padding == (E.screenCols - wellen) \div 2
               IN (IF padding # 0 THEN <<TILDE>> \o Spaces(padding - 1) ELSE <<>>)
                  \o Welcome
           ELSE <<TILDE>>
       ELSE
           LET toBeAdd == at(E.renders, filerow)
           IN IF 0 < Len(toBeAdd) /\ E.colOffset < Len(toBeAdd)
              THEN SubSeq(toBeAdd, E.colOffset + 1, Len(toBeAdd))
              ELSE <<>>

drawRows(E) == [i \in 1..E.screenRows |-> drawRow(E, i - 1)]

\* refreshScreen: the editor state after it and the frame it wrote
refreshScreen(E) ==
    LET E1 == editorScroll(E)
    IN [state |-> E1,
        frame |-> [rows |-> drawRows(E1),
                   cursor |-> <<(E1.cursorY - E1.rowOffset) + 1,
                                (E1.cursorRX - E1.colOffset) + 1>>]]

(***************************************************************************)
(* Raw mode. The terminal starts with the attributes "cooked".             *)
(* enableRawMode saves them (tcgetattr), registers disableRawMode with     *)
(* atexit and sets "raw" (tcsetattr); die() after a failed call is         *)
(* exit(1). exit() runs the registered handlers; a crash runs none. The    *)
(* tcsetattr of disableRawMode is taken to succeed.                        *)
(***************************************************************************)
InitTty == [attrs |-> "cooked", saved |-> "none", atexit |-> <<>>, acquired |-> 0]

disableRawMode(t) == [t EXCEPT !.attrs = t.saved]

\* _exit(): the process ends and no handler runs
exitWithoutHandlers(t) == t

\* exit(): the handlers registered with atexit run
exit(t) == IF t.atexit = <<>> THEN t ELSE disableRawMode(t)

\* enableRawMode, where tcgetattr succeeds iff getOk and tcsetattr iff setOk:
\* the terminal and the process after it
enableRawMode(t, getOk, setOk) ==
    IF ~getOk THEN [tty |-> exit(t), proc |-> "exited"]
    ELSE LET t1 == [t EXCEPT !.saved = t.attrs,
                             !.atexit = Append(t.atexit, "disableRawMode")]
         IN IF ~setOk THEN [tty |-> exit(t1), proc |-> "exited"]
            ELSE [tty |-> [t1 EXCEPT !.attrs = "raw",
                                     !.acquired = t.acquired + 1],
                  proc |-> "initEditor"]

\* the terminal after processKey(key) left the process in state p
ttyAfter(t, p) == IF p = "exited" THEN exit(t) ELSE t

(***************************************************************************)
(* One iteration of the main loop for the key k that readKey returned:     *)
(* refreshScreen(k), which scrolls before it paints, then processKey(k).   *)
(***************************************************************************)
Iterate(k, o) ==
    /\ proc = "running"
    /\ LET E1 == refreshScreen(g_E).state
       IN /\ g_E' = processKey(E1, k, o)
          /\ proc' = processAfter(E1, k, o)
          /\ disk' = fileAfter(E1, k, disk)
          /\ tty' = ttyAfter(tty, processAfter(E1, k, o))

\* the lines whose render line is not the rendering of the line
OutOfSync(E) ==
    {i \in 1..Len(E.lines) :
        i > Len(E.renders) \/ E.renders[i] # convertToRenderingRow(E.lines[i])}

\* no read: readKey returned 0
KeyNone == Iterate(NUL, "crashed") /\ UNCHANGED <<keys, reads, seq, events>>

KeyEnter ==
    /\ Len(g_E.lines) < MaxLines \/ g_E.cursorY >= Len(g_E.lines)
    /\ TotalBytes(g_E.renders) <= MaxRender
    /\ Cardinality(OutOfSync(g_E)) <= MaxDrift
    /\ \E o \in UBOutcomes : Iterate(CR, o)
    /\ UNCHANGED <<keys, reads, seq, events>>

KeyQuit == Iterate(CTRL_Q, "crashed") /\ UNCHANGED <<keys, reads, seq, events>>

KeySave == Iterate(CTRL_S, "crashed") /\ UNCHANGED <<keys, reads, seq, events>>

KeyHome == Iterate(HOME_KEY, "crashed") /\ UNCHANGED <<keys, reads, seq, events>>

KeyEnd == Iterate(END_KEY, "crashed") /\ UNCHANGED <<keys, reads, seq, events>>

KeyBackspace ==
    /\ \E k \in {BACKSPACE, CTRL_H} : Iterate(k, "crashed")
    /\ UNCHANGED <<keys, reads, seq, events>>

KeyDelete == Iterate(DEL_KEY, "crashed") /\ UNCHANGED <<keys, reads, seq, events>>

KeyPage ==
    /\ \E k \in {PAGE_UP, PAGE_DOWN} : Iterate(k, "crashed")
    /\ UNCHANGED <<keys, reads, seq, events>>

KeyArrow ==
    /\ \E k \in {ARROW_LEFT, ARROW_RIGHT, ARROW_UP, ARROW_DOWN} : Iterate(k, "crashed")
    /\ UNCHANGED <<keys, reads, seq, events>>

KeyNoop ==
    /\ \E k \in {CTRL_L, ESC} : Iterate(k, "crashed")
    /\ UNCHANGED <<keys, reads, seq, events>>

\* room for one more byte, within the bounds of the model
Room ==
    /\ TotalBytes(g_E.lines) < MaxBytes
    /\ g_E.cursorY < MaxLines

KeyChar ==
    /\ Room
    /\ \E ch \in Chars : Iterate(ch, "crashed")
    /\ UNCHANGED <<keys, reads, seq, events>>

KeyTab ==
    /\ Room
    /\ Iterate(TAB, "crashed")
    /\ UNCHANGED <<keys, reads, seq, events>>

\* main() up to the loop: initEditor, then editorOpen when a file is named
Startup(rows, cols, f) ==
    IF f.name = "" THEN initEditor(rows, cols)
    ELSE editorOpen(initEditor(rows, cols), f.name, f.content)

\* the editor started on one of files, in a terminal of one of the sizes
StartOn(files) ==
    /\ \E rows \in TermRows, cols \in TermCols, f \in files :
        /\ g_E = Startup(rows, cols, f)
        /\ disk = f.content
    /\ proc = "running"
    /\ keys = <<>>
    /\ reads = <<>>
    /\ seq = <<>>
    /\ events = <<>>
    /\ tty = enableRawMode(InitTty, TRUE, TRUE).tty

Edit ==
    \/ KeyNone
    \/ KeyEnter
    \/ KeyQuit
    \/ KeySave
    \/ KeyHome
    \/ KeyEnd
    \/ KeyBackspace
    \/ KeyDelete
    \/ KeyPage
    \/ KeyArrow
    \/ KeyNoop
    \/ KeyChar

(***************************************************************************)
(* Spec: the editor started on no file, on a file with a tab, or on a file *)
(* without a final newline, with every key, tabs included.                 *)
(***************************************************************************)
Init == StartOn(InitFiles)

Next == Edit \/ KeyTab

Spec == Init /\ [][Next]_vars

(***************************************************************************)
(* EditSpec: the editor started without a file name, typing 'a' and 'b'.   *)
(***************************************************************************)
EditInit == StartOn({NoFile})

EditSpec == EditInit /\ [][Edit]_vars

(***************************************************************************)
(* LineSpec: EditSpec with one more key, Ctrl-J, the byte 0x0A, which no   *)
(* case of processKey names and which therefore takes the default case.    *)
(***************************************************************************)
KeyLineFeed ==
    /\ Room
    /\ Iterate(NL, "crashed")
    /\ UNCHANGED <<keys, reads, seq, events>>

LineNext == Edit \/ KeyLineFeed

LineSpec == EditInit /\ [][LineNext]_vars

(***************************************************************************)
(* ScriptSpec: short runs of typing keys, each logged in keys, from four   *)
(* starting points: no file; "hello" with the cursor at its end (End was   *)
(* pressed); "ab","cd" with the cursor on the second line (Down was        *)
(* pressed); "a" with the cursor below the last line (Down was pressed).   *)
(***************************************************************************)
MaxKeys == 5

ScriptKeys == {97, 98, 99, 100, CR, BACKSPACE, CTRL_H}

HelloFile == [name |-> "hello", content |-> <<104, 101, 108, 108, 111, NL>>]
AbCdFile == [name |-> "abcd", content |-> <<97, 98, NL, 99, 100, NL>>]
AFile == [name |-> "a", content |-> <<97, NL>>]

ScriptStarts ==
    { [file |-> NoFile, setup |-> <<>>],
      [file |-> HelloFile, setup |-> <<END_KEY>>],
      [file |-> AbCdFile, setup |-> <<ARROW_DOWN>>],
      [file |-> AFile, setup |-> <<ARROW_DOWN>>] }

RECURSIVE RunKeys(_, _)
\* the editor state after the loop iterations for the keys ks (none of them
\* Enter, Ctrl-Q or Ctrl-S)
RunKeys(E, ks) ==
    IF ks = <<>> THEN E
    ELSE RunKeys(processKey(editorScroll(E), Head(ks), "crashed"), Tail(ks))

ScriptRows == CHOOSE r \in TermRows : \A q \in TermRows : q <= r
ScriptCols == CHOOSE r \in TermCols : \A q \in TermCols : q <= r

ScriptInit ==
    /\ \E st \in ScriptStarts :
        /\ g_E = RunKeys(Startup(ScriptRows, ScriptCols, st.file), st.setup)
        /\ disk = st.file.content
    /\ proc = "running"
    /\ keys = <<>>
    /\ reads = <<>>
    /\ seq = <<>>
    /\ events = <<>>
    /\ tty = enableRawMode(InitTty, TRUE, TRUE).tty

ScriptKey ==
    /\ Len(keys) < MaxKeys
    /\ \E k \in ScriptKeys :
        /\ \E o \in UBOutcomes : Iterate(k, o)
        /\ keys' = Append(keys, k)
    /\ UNCHANGED <<reads, seq, events>>

ScriptSpec == ScriptInit /\ [][ScriptKey]_vars

(***************************************************************************)
(* readKey, one read() at a time. A read() returns a byte, or NoByte when  *)
(* the 100 ms wait ends without one (it returns 0), or ReadErr (it returns *)
(* -1 with errno other than EAGAIN).                                       *)
(***************************************************************************)
NoByte == -1
ReadErr == -2

Digits == 48..57

\* the bytes the model feeds the decoder: ESC [ ~ the digits A B C D F H a
\* and Ctrl-Q
DecoderBytes == {ESC, 91, 126, 65, 66, 67, 68, 70, 72, 97, CTRL_Q} \cup Digits

ReadResults == DecoderBytes \cup {NoByte, ReadErr}

\* the switch on seq[1] without its cases '7' and '8'
tildeKeyShort(d) ==
    IF d = 49 THEN HOME_KEY
    ELSE IF d = 51 THEN DEL_KEY
    ELSE IF d = 52 THEN END_KEY
    ELSE IF d = 53 THEN PAGE_UP
    ELSE IF d = 54 THEN PAGE_DOWN
    ELSE ESC

\* the key for ESC [ digit ~
tildeKey(d) ==
    IF d = 49 THEN HOME_KEY
    ELSE IF d = 51 THEN DEL_KEY
    ELSE IF d = 52 THEN END_KEY
    ELSE IF d = 53 THEN PAGE_UP
    ELSE IF d = 54 THEN PAGE_DOWN
    ELSE IF d = 55 THEN HOME_KEY
    ELSE IF d = 56 THEN END_KEY
    ELSE ESC

\* the key for ESC [ letter
letterKey(b) ==
    IF b = 65 THEN ARROW_UP
    ELSE IF b = 66 THEN ARROW_DOWN
    ELSE IF b = 67 THEN ARROW_RIGHT
    ELSE IF b = 68 THEN ARROW_LEFT
    ELSE IF b = 72 THEN HOME_KEY
    ELSE IF b = 70 THEN END_KEY
    ELSE ESC

\* the key for ESC '0' letter
zeroKey(b) ==
    IF b = 72 THEN HOME_KEY
    ELSE IF b = 70 THEN END_KEY
    ELSE ESC

\* readKey returns key: the call is logged and the next call starts afresh
Return(key, r) ==
    /\ events' = Append(events, [key |-> key, n |-> Len(seq) + 1])
    /\ seq' = <<>>
    /\ reads' = Append(reads, r)
    /\ UNCHANGED <<g_E, proc, disk, keys, tty>>

\* readKey reads on
More(r) ==
    /\ seq' = Append(seq, r)
    /\ reads' = Append(reads, r)
    /\ UNCHANGED <<g_E, proc, disk, keys, events, tty>>

MaxCalls == 1

\* the first read: die("read") on an error, 0 when no byte came, the byte
\* itself unless it is ESC
ReadFirst ==
    /\ proc = "running"
    /\ seq = <<>>
    /\ Len(events) < MaxCalls
    /\ \E r \in ReadResults :
        IF r = ReadErr
        THEN /\ proc' = "exited"
             /\ tty' = exit(tty)
             /\ reads' = Append(reads, r)
             /\ UNCHANGED <<g_E, disk, keys, seq, events>>
        ELSE IF r = NoByte THEN Return(NUL, r)
        ELSE IF r = ESC THEN More(r)
        ELSE Return(r, r)

\* the read of seq[0] where a lone ESC is dropped: no input is reported
ReadSeq0NoInput ==
    /\ Len(seq) = 1
    /\ \E r \in ReadResults :
        IF r \in {NoByte, ReadErr} THEN Return(NUL, r) ELSE More(r)

\* the read of seq[0]
ReadSeq0 ==
    /\ Len(seq) = 1
    /\ \E r \in ReadResults :
        IF r \in {NoByte, ReadErr} THEN Return(ESC, r) ELSE More(r)

\* the read of seq[1], and the dispatch unless one more byte is read
ReadSeq1 ==
    /\ Len(seq) = 2
    /\ \E r \in ReadResults :
        IF r \in {NoByte, ReadErr} THEN Return(ESC, r)
        ELSE IF seq[2] = 91
             THEN IF r \in Digits THEN More(r) ELSE Return(letterKey(r), r)
        ELSE IF seq[2] = 48 THEN Return(zeroKey(r), r)
        ELSE Return(ESC, r)

\* the read of seq[2] after ESC [ digit
ReadSeq2 ==
    /\ Len(seq) = 3
    /\ \E r \in ReadResults :
        IF r \in {NoByte, ReadErr} THEN Return(ESC, r)
        ELSE IF r = 126 THEN Return(tildeKey(seq[3]), r)
        ELSE Return(ESC, r)

DecoderInit ==
    /\ g_E = Startup(ScriptRows, ScriptCols, NoFile)
    /\ disk = <<>>
    /\ proc = "running"
    /\ keys = <<>>
    /\ reads = <<>>
    /\ seq = <<>>
    /\ events = <<>>
    /\ tty = enableRawMode(InitTty, TRUE, TRUE).tty

DecoderNext == ReadFirst \/ ReadSeq0 \/ ReadSeq1 \/ ReadSeq2

DecoderSpec == DecoderInit /\ [][DecoderNext]_vars

(***************************************************************************)
(* MainSpec: main() from its first statement: enableRawMode, initEditor    *)
(* and editorOpen of the file on the disk, then the loop, where readKey    *)
(* reads byte by byte and refreshScreen and processKey run on the key it   *)
(* returned. At most MaxCalls calls of readKey are made.                   *)
(***************************************************************************)
\* g_E before initEditor: a zero-initialised global
ZeroEditor ==
    [cursorX |-> 0, cursorY |-> 0, cursorRX |-> 0,
     rowOffset |-> 0, colOffset |-> 0,
     screenRows |-> 0, screenCols |-> 0,
     lines |-> <<>>, renders |-> <<>>,
     filename |-> "", modified |-> FALSE]

MainFiles == {AbCdFile}

MainInit ==
    /\ g_E = ZeroEditor
    /\ \E f \in MainFiles : disk = f.content
    /\ proc = "main"
    /\ keys = <<>>
    /\ reads = <<>>
    /\ seq = <<>>
    /\ events = <<>>
    /\ tty = InitTty

EnableRawMode ==
    /\ proc = "main"
    /\ \E getOk \in BOOLEAN, setOk \in BOOLEAN :
        /\ tty' = enableRawMode(tty, getOk, setOk).tty
        /\ proc' = enableRawMode(tty, getOk, setOk).proc
    /\ UNCHANGED <<g_E, disk, keys, reads, seq, events>>

\* initEditor, and editorOpen when a file is named; die("getWindowSize")
\* when the window-size query fails
InitEditor ==
    /\ proc = "initEditor"
    /\ \/ /\ proc' = "exited"
          /\ tty' = exit(tty)
          /\ UNCHANGED g_E
       \/ /\ \E f \in MainFiles :
                /\ f.content = disk
                /\ g_E' = Startup(ScriptRows, ScriptCols, f)
          /\ proc' = "running"
          /\ UNCHANGED tty
    /\ UNCHANGED <<disk, keys, reads, seq, events>>

\* readKey is called once the key before it has been processed
ReadKey ==
    /\ Len(keys) = Len(events)
    /\ DecoderNext

\* refreshScreen(c); processKey(c); for the key c that readKey returned
Process ==
    /\ Len(events) = Len(keys) + 1
    /\ seq = <<>>
    /\ LET c == events[Len(events)].key
       IN /\ \E o \in UBOutcomes : Iterate(c, o)
          /\ keys' = Append(keys, c)
    /\ UNCHANGED <<reads, seq, events>>

MainNext == EnableRawMode \/ InitEditor \/ ReadKey \/ Process

MainSpec == MainInit /\ [][MainNext]_vars

(***************************************************************************)
(* RoundTripSpec: the editor started on a file "f" holding any content of  *)
(* at most MaxContent bytes out of 'a', 'b' and newline, and Ctrl-S        *)
(* pressed, at most MaxSaves times, with no other key.                     *)
(***************************************************************************)
MaxContent == 4
MaxSaves == 2

ContentBytes == {97, 98, NL}

Contents == UNION {[1..n -> ContentBytes] : n \in 0..MaxContent}

RoundTripFiles == {[name |-> "f", content |-> c] : c \in Contents}

RoundTripInit == StartOn(RoundTripFiles)

RoundTripSave ==
    /\ Len(keys) < MaxSaves
    /\ Iterate(CTRL_S, "crashed")
    /\ keys' = Append(keys, CTRL_S)
    /\ UNCHANGED <<reads, seq, events>>

RoundTripSpec == RoundTripInit /\ [][RoundTripSave]_vars

(***************************************************************************)
(* NavSpec: the editor started on a file of three lines, a tab and 'a',    *)
(* "abc", and an empty line, in terminals of 3 to 5 rows (1 to 3 body      *)
(* rows) and 1 to 3 columns, with the navigation keys and the read         *)
(* timeouts between them; the Document never changes.                      *)
(***************************************************************************)
NavRows == {3, 4, 5}
NavCols == {1, 2, 3}

NavFile == [name |-> "nav", content |-> <<TAB, 97, NL, 97, 98, 99, NL, NL>>]

NavInit ==
    /\ \E rows \in NavRows, cols \in NavCols :
        g_E = Startup(rows, cols, NavFile)
    /\ disk = NavFile.content
    /\ proc = "running"
    /\ keys = <<>>
    /\ reads = <<>>
    /\ seq = <<>>
    /\ events = <<>>
    /\ tty = enableRawMode(InitTty, TRUE, TRUE).tty

NavNext == KeyNone \/ KeyHome \/ KeyEnd \/ KeyPage \/ KeyArrow

NavSpec == NavInit /\ [][NavNext]_vars

(***************************************************************************)
(* Properties                                                              *)
(***************************************************************************)

\* C1. Cursor invariant: after any sequence of keys the cursor satisfies
\* 0 <= y <= len(Lines) and 0 <= x <= len(Lines[y]), with x = 0 when
\* y = len(Lines).
CursorInvariant ==
    LET y == g_E.cursorY
        x == g_E.cursorX
        n == Len(g_E.lines)
    IN /\ 0 <= y
       /\ y <= n
       /\ 0 <= x
       /\ y < n => x <= Len(at(g_E.lines, y))
       /\ y = n => x = 0

\* C2. Render-sync invariant: at every paint there are as many render lines
\* as lines, and every render line is convertToRenderingRow of its line.
RenderSync ==
    /\ Len(g_E.renders) = Len(g_E.lines)
    /\ \A i \in 1..Len(g_E.lines) :
        g_E.renders[i] = convertToRenderingRow(g_E.lines[i])

\* C3. Edge policy: no key makes an editing operation reach outside its
\* vectors or insert past their end; Enter on the line below the last one
\* is clamped or ignored. (The process is "crashed" or "undefined" exactly
\* after such an access.)
EdgePolicy == proc \in {"running", "exited"}

\* C4. Dirty flag: modified is false after startup, true after every step
\* that changes the lines (a byte typed, a line split, a byte removed, two
\* lines merged), false after Ctrl-S with a known file name, and left as it
\* is by the navigation keys.
Navigation == KeyArrow \/ KeyHome \/ KeyEnd \/ KeyPage

DirtyFlag ==
    /\ ~g_E.modified
    /\ [][/\ g_E'.lines # g_E.lines => g_E'.modified
          /\ (KeySave /\ g_E.filename # "") => ~g_E'.modified
          /\ Navigation => g_E'.modified = g_E.modified]_vars

\* C5. Tab expansion: in the render line of every line a tab has become the
\* 1 to 8 spaces that reach the next multiple of 8 and every other byte is
\* itself.
RECURSIVE expandFrom(_, _)
\* line rendered by that rule, from render column col on
expandFrom(line, col) ==
    IF line = <<>> THEN <<>>
    ELSE IF Head(line) = TAB
         THEN Spaces(8 - (col % 8)) \o expandFrom(Tail(line), col + 8 - (col % 8))
         ELSE <<Head(line)>> \o expandFrom(Tail(line), col + 1)

TabExpansion ==
    \A i \in 1..Len(g_E.lines) :
        convertToRenderingRow(g_E.lines[i]) = expandFrom(g_E.lines[i], 0)

\* a step of ScriptSpec that processes the key k
Typed(k) ==
    /\ proc = "running"
    /\ Len(keys') = Len(keys) + 1
    /\ keys'[Len(keys')] = k

RECURSIVE Flatten(_)
\* the bytes of all the lines, in order
Flatten(ls) == IF ls = <<>> THEN <<>> ELSE Head(ls) \o Flatten(Tail(ls))

\* C6. insertChar: a printable byte ch typed at (y,x) first appends an empty
\* line if y = len(Lines), then makes Lines[y] the old Lines[y][0..x) + ch +
\* old Lines[y][x..), leaves the other lines as they are and moves the cursor
\* to (y, x+1); and a, b, c, Enter, d on the empty Document give
\* ["abc", "d"] with the cursor at (1,1).
InsertCharStep ==
    \A ch \in {97, 98, 99, 100} :
        Typed(ch) =>
            LET y == g_E.cursorY
                x == g_E.cursorX
                old == IF y = Len(g_E.lines) THEN Append(g_E.lines, <<>>)
                       ELSE g_E.lines
                line == old[y + 1]
            IN /\ g_E'.lines =
                    [old EXCEPT ![y + 1] =
                        SubSeq(line, 1, x) \o <<ch>> \o SubSeq(line, x + 1, Len(line))]
               /\ g_E'.cursorY = y
               /\ g_E'.cursorX = x + 1

AbcEnterD ==
    (g_E.filename = "" /\ keys = <<97, 98, 99, CR, 100>>) =>
        /\ g_E.lines = <<<<97, 98, 99>>, <<100>>>>
        /\ g_E.cursorY = 1
        /\ g_E.cursorX = 1

InsertChar == [][InsertCharStep]_vars /\ []AbcEnterD

InsertCharWitness ==
    /\ g_E.filename = ""
    /\ keys = <<97, 98, 99, CR, 100>>
    /\ g_E.lines = <<<<97, 98, 99>>, <<100>>>>
    /\ proc = "running"

\* C7. insertNewline: Enter at (y,x) on an existing line replaces Lines[y] by
\* Lines[y][0..x) and Lines[y][x..) at y and y+1, keeps the lines before and
\* after in order (one line more, the same bytes in all), and moves the
\* cursor to (y+1, 0).
InsertNewlineStep ==
    (Typed(CR) /\ g_E.cursorY < Len(g_E.lines)) =>
        LET y == g_E.cursorY
            x == g_E.cursorX
            n == Len(g_E.lines)
            line == g_E.lines[y + 1]
        IN /\ g_E'.lines =
                SubSeq(g_E.lines, 1, y)
                \o <<SubSeq(line, 1, x), SubSeq(line, x + 1, Len(line))>>
                \o SubSeq(g_E.lines, y + 2, n)
           /\ Len(g_E'.lines) = n + 1
           /\ Flatten(g_E'.lines) = Flatten(g_E.lines)
           /\ g_E'.cursorY = y + 1
           /\ g_E'.cursorX = 0

InsertNewline == [][InsertNewlineStep]_vars

\* "ab","cd" merged by Backspace and split again in the middle by Enter
InsertNewlineWitness ==
    /\ g_E.filename = "abcd"
    /\ keys = <<BACKSPACE, CR>>
    /\ g_E.lines = <<<<97, 98>>, <<99, 100>>>>
    /\ g_E.cursorY = 1
    /\ g_E.cursorX = 0

\* C8. deleteChar (Backspace, Ctrl-H) at (y,x): nothing changes at (0,0) and
\* at y = len(Lines); for x > 0 the byte at x-1 goes and the cursor moves to
\* (y, x-1); for x = 0, y > 0 line y is appended to line y-1 and removed, and
\* the cursor moves to (y-1, len(old Lines[y-1])). So ["hello"] at (0,5) with
\* 5 Backspaces gives [""] at (0,0), and ["ab","cd"] at (1,0) with one gives
\* ["abcd"] at (0,2).
DeleteCharStep ==
    \A k \in {BACKSPACE, CTRL_H} :
        Typed(k) =>
            LET y == g_E.cursorY
                x == g_E.cursorX
                n == Len(g_E.lines)
            IN IF (y = 0 /\ x = 0) \/ y = n
               THEN /\ g_E'.lines = g_E.lines
                    /\ g_E'.cursorY = y
                    /\ g_E'.cursorX = x
               ELSE IF x > 0
               THEN /\ g_E'.lines =
                        [g_E.lines EXCEPT ![y + 1] =
                            SubSeq(@, 1, x - 1) \o SubSeq(@, x + 1, Len(@))]
                    /\ g_E'.cursorY = y
                    /\ g_E'.cursorX = x - 1
               ELSE /\ g_E'.lines =
                        SubSeq(g_E.lines, 1, y - 1)
                        \o <<g_E.lines[y] \o g_E.lines[y + 1]>>
                        \o SubSeq(g_E.lines, y + 2, n)
                    /\ g_E'.cursorY = y - 1
                    /\ g_E'.cursorX = Len(g_E.lines[y])

HelloBackspaces ==
    (/\ g_E.filename = "hello"
     /\ keys = <<BACKSPACE, BACKSPACE, BACKSPACE, BACKSPACE, BACKSPACE>>) =>
        /\ g_E.lines = <<<<>>>>
        /\ g_E.cursorY = 0
        /\ g_E.cursorX = 0

AbCdBackspace ==
    (g_E.filename = "abcd" /\ keys = <<BACKSPACE>>) =>
        /\ g_E.lines = <<<<97, 98, 99, 100>>>>
        /\ g_E.cursorY = 0
        /\ g_E.cursorX = 2

DeleteChar ==
    [][DeleteCharStep]_vars /\ [](HelloBackspaces /\ AbCdBackspace)

DeleteCharWitness ==
    /\ g_E.filename = "hello"
    /\ keys = <<BACKSPACE, BACKSPACE, BACKSPACE, BACKSPACE, BACKSPACE>>
    /\ g_E.lines = <<<<>>>>

\* the cursor is at the end of the last line of a Document that has lines
AtEndOfLastLine ==
    /\ proc = "running"
    /\ Len(g_E.lines) > 0
    /\ g_E.cursorY = Len(g_E.lines) - 1
    /\ g_E.cursorX = Len(g_E.lines[Len(g_E.lines)])

\* C9, as claimed. Delete at the end of the last line is a no-op: the
\* Document, the cursor and the dirty flag are all unchanged.
DeleteAtEndNoOp ==
    [][(AtEndOfLastLine /\ KeyDelete) =>
        /\ g_E'.lines = g_E.lines
        /\ g_E'.renders = g_E.renders
        /\ g_E'.cursorX = g_E.cursorX
        /\ g_E'.cursorY = g_E.cursorY
        /\ g_E'.modified = g_E.modified]_vars

\* C9, as amended. Delete at the end of the last line leaves the Document
\* and the dirty flag unchanged and moves the cursor below the last line, to
\* (len(Lines), 0).
DeleteAtEndMovesBelow ==
    [][(AtEndOfLastLine /\ KeyDelete) =>
        /\ g_E'.lines = g_E.lines
        /\ g_E'.renders = g_E.renders
        /\ g_E'.cursorX = 0
        /\ g_E'.cursorY = Len(g_E.lines)
        /\ g_E'.modified = g_E.modified
        /\ proc' = "running"]_vars

\* two typed bytes, never a Backspace, and the cursor below the line
DeleteAtEndWitness ==
    /\ g_E.lines = <<<<97, 98>>>>
    /\ g_E.cursorY = 1
    /\ g_E.cursorX = 0
    /\ ~g_E.modified
    /\ proc = "running"

\* C10. Decoder table: a complete recognised escape sequence fed from Ready
\* gives exactly one key event, takes exactly its bytes and leaves the
\* decoder Ready: ESC [ A/B/C/D/H/F are Up/Down/Right/Left/Home/End; ESC [ d ~
\* is Home for d in {1,7}, Delete for 3, End for {4,8}, PageUp for 5,
\* PageDown for 6 and a bare Escape for any other digit.
LetterSequences == {<<ESC, 91, b>> : b \in {65, 66, 67, 68, 72, 70}}
TildeSequences == {<<ESC, 91, d, 126>> : d \in Digits}

\* the key the table gives for the sequence s
TableKey(s) ==
    IF Len(s) = 3
    THEN CASE s[3] = 65 -> ARROW_UP
           [] s[3] = 66 -> ARROW_DOWN
           [] s[3] = 67 -> ARROW_RIGHT
           [] s[3] = 68 -> ARROW_LEFT
           [] s[3] = 72 -> HOME_KEY
           [] s[3] = 70 -> END_KEY
    ELSE CASE s[3] \in {49, 55} -> HOME_KEY
           [] s[3] = 51 -> DEL_KEY
           [] s[3] \in {52, 56} -> END_KEY
           [] s[3] = 53 -> PAGE_UP
           [] s[3] = 54 -> PAGE_DOWN
           [] OTHER -> ESC

RECURSIVE ReadsBefore(_)
\* the number of reads made by the calls before call i
ReadsBefore(i) == IF i <= 1 THEN 0 ELSE ReadsBefore(i - 1) + events[i - 1].n

\* what was read from the start of call i on
ReadFrom(i) == SubSeq(reads, ReadsBefore(i) + 1, Len(reads))

IsPrefix(s, t) == Len(s) <= Len(t) /\ SubSeq(t, 1, Len(s)) = s

DecoderTable ==
    \A i \in 1..(Len(events) + 1) :
        \A s \in LetterSequences \cup TildeSequences :
            IsPrefix(s, ReadFrom(i)) =>
                /\ i <= Len(events)
                /\ events[i].n = Len(s)
                /\ events[i].key = TableKey(s)
                /\ (i = Len(events) /\ Len(ReadFrom(i)) = Len(s)) => seq = <<>>

DecoderTableWitness ==
    /\ reads = <<ESC, 91, 53, 126>>
    /\ events = <<[key |-> PAGE_UP, n |-> 4]>>
    /\ seq = <<>>

\* C11. Escape on timeout: when the read that follows ESC, ESC [ or
\* ESC [ digit times out, readKey returns exactly one Escape, having made
\* exactly those reads, and its next call starts afresh; a first read that
\* times out gives the "no input" key 0, which is not Escape; and the loop
\* iteration for "no input" does what refreshScreen does and nothing more:
\* the Document, the cursor, the dirty flag, the file and the process are as
\* they were.
PendingTimeouts ==
    {<<ESC, NoByte>>, <<ESC, 91, NoByte>>} \cup {<<ESC, 91, d, NoByte>> : d \in Digits}

EscapeOnTimeoutCalls ==
    \A i \in 1..(Len(events) + 1) :
        /\ \A s \in PendingTimeouts :
            IsPrefix(s, ReadFrom(i)) =>
                /\ i <= Len(events)
                /\ events[i].n = Len(s)
                /\ events[i].key = ESC
                /\ (i = Len(events) /\ Len(ReadFrom(i)) = Len(s)) => seq = <<>>
        /\ IsPrefix(<<NoByte>>, ReadFrom(i)) =>
                /\ i <= Len(events)
                /\ events[i].n = 1
                /\ events[i].key = NUL
                /\ events[i].key # ESC

NoInputStep ==
    (Process /\ events[Len(events)].key = NUL) =>
        /\ g_E' = editorScroll(g_E)
        /\ g_E'.lines = g_E.lines
        /\ g_E'.renders = g_E.renders
        /\ g_E'.cursorX = g_E.cursorX
        /\ g_E'.cursorY = g_E.cursorY
        /\ g_E'.modified = g_E.modified
        /\ disk' = disk
        /\ proc' = proc
        /\ tty' = tty

EscapeOnTimeout == [][NoInputStep]_vars /\ []EscapeOnTimeoutCalls

\* ESC, then a read that timed out: one Escape, processed by the loop
EscapeOnTimeoutWitness ==
    /\ reads = <<ESC, NoByte>>
    /\ events = <<[key |-> ESC, n |-> 2]>>
    /\ keys = <<ESC>>
    /\ seq = <<>>
    /\ proc = "running"

Normalized(content) ==
    IF content = <<>> \/ content[Len(content)] = NL THEN content
    ELSE Append(content, NL)

Newlines(content) == Cardinality({i \in 1..Len(content) : content[i] = NL})

RoundTrip ==
    [][RoundTripSave =>
        /\ disk' = Normalized(disk)
        /\ Newlines(disk') = Len(g_E.lines)
        /\ Len(disk') = TotalBytes(g_E.lines) + Len(g_E.lines)
        /\ getlines(disk') = g_E.lines
        /\ g_E'.lines = g_E.lines]_vars

\* a file whose last line had no newline, saved once
RoundTripWitness ==
    /\ keys = <<CTRL_S>>
    /\ g_E.lines = <<<<97>>, <<>>, <<98>>>>
    /\ disk = <<97, NL, NL, 98, NL>>

\* C14. Loop order: the frame written in an iteration of the loop is the
\* frame of the editor state that the iteration's key leaves: it shows the
\* Document and the cursor as they are after processKey.
LoopOrder ==
    [][(proc = "running" /\ proc' = "running") =>
        refreshScreen(g_E).frame = refreshScreen(g_E').frame]_vars

\* C15. Escape followed by an unrecognised byte: when a call of readKey has
\* read ESC and then a byte that is neither '[' nor '0', it returns Escape
\* on that byte, after exactly two reads, so that the byte read next is the
\* first read of the next call.
EscapeThenByte ==
    \A i \in 1..(Len(events) + 1) :
        \A b \in DecoderBytes \ {91, 48} :
            IsPrefix(<<ESC, b>>, ReadFrom(i)) =>
                /\ i <= Len(events)
                /\ events[i].n = 2
                /\ events[i].key = ESC

\* C16. Render column of the cursor: after every editorScroll, cursorRX is
\* the render column of x in Lines[y] by the tab-stop rule replayed over
\* bytes [0,x), it is 0 when the cursor is below the last line, and the
\* render column never decreases as x grows.
xToRx(line, x) == Len(expandFrom(SubSeq(line, 1, x), 0))

CursorRenderColumn ==
    proc = "running" =>
        LET E == editorScroll(g_E)
        IN /\ E.cursorY < Len(E.lines) =>
                E.cursorRX = xToRx(at(E.lines, E.cursorY), E.cursorX)
           /\ E.cursorY >= Len(E.lines) => E.cursorRX = 0
           /\ \A i \in 1..Len(E.lines) :
                \A x \in 1..Len(E.lines[i]) :
                    xToRx(E.lines[i], x - 1) <= xToRx(E.lines[i], x)

\* C17. Cursor stays visible: with at least one body row and one column,
\* after editorScroll rowOffset <= y < rowOffset + screenRows and
\* colOffset <= rx < colOffset + screenCols, so the cursor position written
\* into the frame is within [1..screenRows] x [1..screenCols]; and
\* editorScroll leaves both offsets as they are when the cursor is already
\* within that rectangle.
CursorVisible ==
    (proc = "running" /\ g_E.screenRows >= 1 /\ g_E.screenCols >= 1) =>
        LET E == editorScroll(g_E)
            cursor == refreshScreen(g_E).frame.cursor
            inside == /\ g_E.rowOffset <= E.cursorY
                      /\ E.cursorY < g_E.rowOffset + g_E.screenRows
                      /\ g_E.colOffset <= E.cursorRX
                      /\ E.cursorRX < g_E.colOffset + g_E.screenCols
        IN /\ E.rowOffset <= E.cursorY
           /\ E.cursorY < E.rowOffset + E.screenRows
           /\ E.colOffset <= E.cursorRX
           /\ E.cursorRX < E.colOffset + E.screenCols
           /\ cursor[1] = E.cursorY - E.rowOffset + 1
           /\ cursor[2] = E.cursorRX - E.colOffset + 1
           /\ cursor[1] \in 1..E.screenRows
           /\ cursor[2] \in 1..E.screenCols
           /\ inside => (E.rowOffset = g_E.rowOffset /\ E.colOffset = g_E.colOffset)

\* the cursor has left the window downwards and to the left: editorScroll
\* moves both offsets
CursorVisibleWitness ==
    /\ proc = "running"
    /\ g_E.screenRows = 1
    /\ g_E.screenCols = 2
    /\ editorScroll(g_E).rowOffset > g_E.rowOffset
    /\ editorScroll(g_E).colOffset < g_E.colOffset

\* C18. Scroll idempotence: editorScroll applied twice in a row, with no
\* change to the cursor or the Document in between, gives the rowOffset,
\* colOffset and cursorRX (and the whole state) that one application gives,
\* for every cursor position, pair of offsets and screen size of a run.
ScrollIdempotent ==
    LET E1 == editorScroll(g_E)
        E2 == editorScroll(E1)
    IN /\ E2.rowOffset = E1.rowOffset
       /\ E2.colOffset = E1.colOffset
       /\ E2.cursorRX = E1.cursorRX
       /\ E2 = E1

\* a state that one editorScroll changes in all three: the cursor went from
\* the end of "abc" up to the end of the line with the tab
ScrollIdempotentWitness ==
    /\ proc = "running"
    /\ g_E.cursorY = 0
    /\ editorScroll(g_E).rowOffset < g_E.rowOffset
    /\ editorScroll(g_E).colOffset > g_E.colOffset
    /\ editorScroll(g_E).cursorRX > g_E.cursorRX

\* C19. Body row width: in every frame the body row of a Document line is
\* the part of its render line from colOffset up to, not including,
\* colOffset + screenCols (empty when colOffset is at or past the end), so
\* no body row has more than screenCols text characters.
BodyRowWidth ==
    proc = "running" =>
        LET E == refreshScreen(g_E).state
            rows == refreshScreen(g_E).frame.rows
        IN \A y \in 0..(E.screenRows - 1) :
            (y + E.rowOffset < Len(E.lines)) =>
                LET render == at(E.renders, y + E.rowOffset)
                IN /\ rows[y + 1] =
                        SubSeq(render, E.colOffset + 1,
                               Min(E.colOffset + E.screenCols, Len(render)))
                   /\ Len(rows[y + 1]) <= E.screenCols

\* C20. Line integrity: after any sequence of keys, whatever their bytes, no
\* line holds a newline byte, so the lines written by save are the lines
\* editorOpen reads back.
LineIntegrity ==
    proc = "running" =>
        /\ \A i \in 1..Len(g_E.lines) :
            \A j \in 1..Len(g_E.lines[i]) : g_E.lines[i][j] # NL
        /\ getlines(toText(g_E.lines)) = g_E.lines

====
